---- MODULE Spec2Model ----
(***************************************************************************)
(* Inventory ledger of main.py: the items and transactions tables behind   *)
(* the Supabase client, the CRUD helpers add_item / update_quantity /      *)
(* delete_item, and the handlers that call them (add form, use / buy /     *)
(* delete buttons, random-sale simulation, clear-all, CSV export and       *)
(* CSV import).                                                            *)
(*                                                                         *)
(* Prices are kept in hundredths (2.50 is 250).  A failing backend request *)
(* (network, credentials) is not modelled: every request reaches the       *)
(* database; the only exceptions modelled are those the client library     *)
(* raises on the data itself (.single() / .maybe_single() row counts, a    *)
(* value that cannot be JSON-encoded).                                     *)
(***************************************************************************)
EXTENDS Integers, Sequences, FiniteSets, TLC

VARIABLES
    items,          \* table "items": id -> [name, category, qty, price, restock_threshold]
    transactions,   \* table "transactions" in insertion order: [item_id, change, note]
    nextItemId,     \* next value of the items.id sequence
    everClamped,    \* stored items one of whose updates hit the max(..., 0) floor (line 58)
    msgs,           \* st.error / st.warning / st.success texts of the last handler run
    pc,             \* handler in progress: "idle", "sim" or "import"
    choices,        \* simulation: live['id'].tolist()
    simLeft,        \* simulation: iterations of range(10) still to run
    df_import,      \* import: rows of df_import not yet visited by iterrows()
    exported,       \* the inventory CSV last downloaded
    phase,          \* export / import round trip: which step comes next
    calls,          \* concurrent sessions: each session's update_quantity call
    round,          \* concurrent sessions: item and quantity the two calls started from
    order           \* concurrent sessions: sessions in the order their requests ran

storeVars == <<items, transactions, nextItemId, everClamped>>
uiVars    == <<msgs, pc, choices, simLeft, df_import>>
tripVars  == <<exported, phase>>
concVars  == <<calls, round, order>>
vars      == <<items, transactions, nextItemId, everClamped,
               msgs, pc, choices, simLeft, df_import, exported, phase,
               calls, round, order>>

----------------------------------------------------------------------------
(* Bounds of the model *)

MaxId     == 3      \* item ids handed out in one behaviour
MaxTx     == 3      \* transactions logged in one behaviour
MaxRows   == 2      \* rows of an uploaded CSV file
SimEvents == 2      \* iterations of the simulation loop (range(10) in the source)
TripItems == 2      \* items built before an export / import round trip

(* Program constants *)

SimMaxSale == 3     \* random.randint(1,3)

----------------------------------------------------------------------------
(* Input domains *)

\* What pandas holds for a CSV cell it reads as missing (float nan).
NaN == "<float nan>"

\* Cells pandas.read_csv turns into nan by default (a few of its na_values).
NaTokens == {"", "NA", "null", "None", "nan"}

\* Values of the add form (lines 115-137): name stripped and non-blank,
\* quantity, price and threshold bounded below by 0.
FormInputs ==
    { [name |-> "Widget", category |-> "Tools", qty |-> 2, price |-> 250, restock_threshold |-> 3],
      [name |-> "Widget", category |-> "Misc",  qty |-> 0, price |-> 999, restock_threshold |-> 0],
      [name |-> "Gadget", category |-> "Tools", qty |-> 1, price |-> 0,   restock_threshold |-> 1],
      [name |-> "NA",     category |-> "Misc",  qty |-> 1, price |-> 250, restock_threshold |-> 3] }

\* Rows of an uploaded file, as text cells already split into the columns
\* the import reads (any int in qty, also a negative one).
CsvRows ==
    { [name |-> "Widget", category |-> "Tools", qty |-> 5,  price |-> 250, restock_threshold |-> 3],
      [name |-> "Widget", category |-> "Misc",  qty |-> -2, price |-> 0,   restock_threshold |-> 0],
      [name |-> "Gadget", category |-> "Misc",  qty |-> 0,  price |-> 999, restock_threshold |-> 1],
      [name |-> "NA",     category |-> "Tools", qty |-> 1,  price |-> 250, restock_threshold |-> 3] }

RECURSIVE SeqsUpTo(_, _)
SeqsUpTo(S, n) ==
    IF n = 0 THEN {<<>>}
    ELSE LET shorter == SeqsUpTo(S, n - 1)
         IN  shorter \cup {Append(s, x) : s \in {t \in shorter : Len(t) = n - 1}, x \in S}

CsvFiles == SeqsUpTo(CsvRows, MaxRows)

----------------------------------------------------------------------------
(* Helpers *)

Max2(a, b) == IF a >= b THEN a ELSE b

EmptyTable == [i \in {} |-> 0]

Insert(table, id, row) ==
    [i \in (DOMAIN table) \cup {id} |-> IF i = id THEN row ELSE table[i]]

Remove(table, ids) == [i \in (DOMAIN table) \ ids |-> table[i]]

RECURSIVE SelectSeq2(_, _)
\* rows of a table sequence whose item_id is not in ids, order kept
SelectSeq2(seq, ids) ==
    IF seq = <<>> THEN <<>>
    ELSE IF Head(seq).item_id \in ids THEN SelectSeq2(Tail(seq), ids)
         ELSE <<Head(seq)>> \o SelectSeq2(Tail(seq), ids)

\* The store as one value, with the st.error texts a helper has emitted.
Store == [items |-> items, transactions |-> transactions,
          nextItemId |-> nextItemId,
          everClamped |-> everClamped, errors |-> {}]

\* write a helper's result back; an id leaves everClamped with its item
Commit(s) ==
    /\ items' = s.items
    /\ transactions' = s.transactions
    /\ nextItemId' = s.nextItemId
    /\ everClamped' = s.everClamped \cap DOMAIN s.items

----------------------------------------------------------------------------
(* CRUD helpers, lines 34-76 *)

\* json.dumps of the insert payload: a float nan is refused.
JsonSerializable(v) == v # NaN

\* Mutant of add_item: the ledger entry of the initial stock is not written.
add_item_no_tx(s, name, category, qty, price, restock_threshold) ==
    IF ~JsonSerializable(name) \/ ~JsonSerializable(category)
    THEN [s EXCEPT !.errors = @ \cup {"Failed to add item"}]
    ELSE LET item_id == s.nextItemId
         IN  [s EXCEPT
                !.items = Insert(@, item_id,
                            [name |-> name, category |-> category, qty |-> qty,
                             price |-> price, restock_threshold |-> restock_threshold]),
                !.nextItemId = @ + 1]

\* Mutant of add_item: the new row takes the lowest id not in use.
add_item_reuse_id(s, name, category, qty, price, restock_threshold) ==
    IF ~JsonSerializable(name) \/ ~JsonSerializable(category)
    THEN [s EXCEPT !.errors = @ \cup {"Failed to add item"}]
    ELSE LET item_id == CHOOSE i \in 1..(s.nextItemId) :
                            /\ i \notin DOMAIN s.items
                            /\ \A j \in 1..(i - 1) : j \in DOMAIN s.items
         IN  [s EXCEPT
                !.items = Insert(@, item_id,
                            [name |-> name, category |-> category, qty |-> qty,
                             price |-> price, restock_threshold |-> restock_threshold]),
                !.nextItemId = @ + 1,
                !.transactions = Append(@, [item_id |-> item_id,
                                            change |-> qty,
                                            note |-> <<"Initial stock: ", qty>>])]

\* add_item: insert the item row, then the "Initial stock" transaction for
\* the id the insert returned; an exception is shown and swallowed.
add_item(s, name, category, qty, price, restock_threshold) ==
    IF ~JsonSerializable(name) \/ ~JsonSerializable(category)
    THEN [s EXCEPT !.errors = @ \cup {"Failed to add item"}]
    ELSE LET item_id == s.nextItemId
         IN  [s EXCEPT
                !.items = Insert(@, item_id,
                            [name |-> name, category |-> category, qty |-> qty,
                             price |-> price, restock_threshold |-> restock_threshold]),
                !.nextItemId = @ + 1,
                !.transactions = Append(@, [item_id |-> item_id,
                                            change |-> qty,
                                            note |-> <<"Initial stock: ", qty>>])]

\* Mutant of new_qty: no floor at 0.
new_qty_unclamped(current_qty, delta) == current_qty + delta

\* line 58
new_qty(current_qty, delta) == Max2(current_qty + delta, 0)

\* Mutant of logged_change: the effective change is logged.
logged_change_effective(current_qty, delta) == new_qty(current_qty, delta) - current_qty

\* line 66: the transaction carries the requested delta
logged_change(current_qty, delta) == delta

\* Mutant of update_quantity: a missing item is not noticed, the log is written.
update_quantity_unchecked(s, item_id, delta, note) ==
    IF item_id \notin DOMAIN s.items
    THEN [s EXCEPT
            !.transactions = Append(@, [item_id |-> item_id,
                                        change |-> delta, note |-> note])]
    ELSE LET current_qty == s.items[item_id].qty
         IN  [s EXCEPT
                !.items[item_id].qty = new_qty(current_qty, delta),
                !.transactions = Append(@, [item_id |-> item_id,
                                            change |-> logged_change(current_qty, delta),
                                            note |-> note]),
                !.everClamped = IF current_qty + delta < 0 THEN @ \cup {item_id} ELSE @]

\* update_quantity: .single() raises when no row has the id (the exception
\* is shown by line 72); otherwise read, write the floored sum, log.
update_quantity(s, item_id, delta, note) ==
    IF item_id \notin DOMAIN s.items
    THEN [s EXCEPT !.errors = @ \cup {"Failed to update quantity"}]
    ELSE LET current_qty == s.items[item_id].qty
         IN  [s EXCEPT
                !.items[item_id].qty = new_qty(current_qty, delta),
                !.transactions = Append(@, [item_id |-> item_id,
                                            change |-> logged_change(current_qty, delta),
                                            note |-> note]),
                !.everClamped = IF current_qty + delta < 0 THEN @ \cup {item_id} ELSE @]

\* Mutant of delete_item: the transactions of the item are left behind.
delete_item_no_cascade(s, item_id) ==
    [s EXCEPT !.items = Remove(@, {item_id})]

\* delete_item: the item row, then every transaction with its item_id.
delete_item(s, item_id) ==
    [s EXCEPT !.items = Remove(@, {item_id}),
              !.transactions = SelectSeq2(@, {item_id})]

\* lines 233-234: every transaction, then every item (ids are >= 1)
clear_all(s) ==
    [s EXCEPT !.transactions = <<>>, !.items = EmptyTable]

----------------------------------------------------------------------------
(* Initial state: both tables empty, no handler running *)

Sessions == {1, 2}

IdleCall == [pc |-> "idle", item_id |-> 0, delta |-> 0, note |-> <<>>,
             current_qty |-> 0, new_qty |-> 0]

NoRound == [item_id |-> 0, qty |-> 0, logged |-> 0]

Init ==
    /\ items = EmptyTable
    /\ transactions = <<>>
    /\ nextItemId = 1
    /\ everClamped = {}
    /\ msgs = {}
    /\ pc = "idle"
    /\ choices = {}
    /\ simLeft = 0
    /\ df_import = <<>>
    /\ exported = <<>>
    /\ phase = "build"
    /\ calls = [a \in Sessions |-> IdleCall]
    /\ round = NoRound
    /\ order = <<>>

----------------------------------------------------------------------------
(* Handlers *)

\* "Add item" button, lines 138-143 (a blank name never reaches add_item)
AddButton(f) ==
    /\ pc = "idle"
    /\ nextItemId <= MaxId
    /\ Len(transactions) < MaxTx
    /\ LET r == add_item(Store, f.name, f.category, f.qty, f.price, f.restock_threshold)
       IN  /\ Commit(r)
           /\ msgs' = r.errors \cup {"Added"}
    /\ UNCHANGED <<pc, choices, simLeft, df_import>>

\* "Use" button of a rendered row, lines 183-188.  The button is disabled
\* while the row shows no stock; the row may have been deleted since the page
\* was rendered (the backend is shared between sessions).
UseButton(id) ==
    /\ pc = "idle"
    /\ Len(transactions) < MaxTx
    /\ id \in DOMAIN items => items[id].qty > 0
    /\ LET r == update_quantity(Store, id, -1, <<"Used 1">>)
       IN  /\ Commit(r)
           /\ msgs' = r.errors
    /\ UNCHANGED <<pc, choices, simLeft, df_import>>

\* "Buy" button of a rendered row, lines 193-195
BuyButton(id) ==
    /\ pc = "idle"
    /\ Len(transactions) < MaxTx
    /\ LET r == update_quantity(Store, id, 1, <<"Bought +1">>)
       IN  /\ Commit(r)
           /\ msgs' = r.errors
    /\ UNCHANGED <<pc, choices, simLeft, df_import>>

\* "Delete" button of a rendered row, lines 199-201
DeleteButton(id) ==
    /\ pc = "idle"
    /\ Commit(delete_item(Store, id))
    /\ msgs' = {}
    /\ UNCHANGED <<pc, choices, simLeft, df_import>>

\* "Clear all data" button, lines 232-236
ClearButton ==
    /\ pc = "idle"
    /\ Commit(clear_all(Store))
    /\ msgs' = {"All data cleared."}
    /\ UNCHANGED <<pc, choices, simLeft, df_import>>

\* "Simulate random sales" button, lines 219-224: load the live ids
SimulateButton ==
    /\ pc = "idle"
    /\ Len(transactions) + SimEvents <= MaxTx
    /\ IF DOMAIN items = {}
       THEN /\ msgs' = {"No items to simulate", "Simulation complete!"}
            /\ UNCHANGED <<pc, choices, simLeft>>
       ELSE /\ msgs' = {}
            /\ pc' = "sim"
            /\ choices' = DOMAIN items
            /\ simLeft' = SimEvents
    /\ UNCHANGED <<storeVars, df_import>>

\* one iteration of the simulation loop, lines 225-228
SimulateEvent(iid, sale) ==
    /\ pc = "sim"
    /\ simLeft > 0
    /\ iid \in choices
    /\ LET r == update_quantity(Store, iid, -sale, <<"Simulated sale">>)
       IN  /\ Commit(r)
           /\ msgs' = msgs \cup r.errors
    /\ simLeft' = simLeft - 1
    /\ UNCHANGED <<pc, choices, df_import>>

\* end of the simulation, lines 229-230
SimulateDone ==
    /\ pc = "sim"
    /\ simLeft = 0
    /\ msgs' = msgs \cup {"Simulation complete!"}
    /\ pc' = "idle"
    /\ choices' = {}
    /\ UNCHANGED <<storeVars, simLeft, df_import>>

\* pandas.read_csv on one text cell
ReadCell(text) == IF text \in NaTokens THEN NaN ELSE text

\* pandas.read_csv, line 289: the rows of the file with their cells parsed
read_csv(file) ==
    [k \in 1..Len(file) |->
        [file[k] EXCEPT !.name = ReadCell(@), !.category = ReadCell(@)]]

\* str() of a filter value, as the query builder puts it into eq.<value>
PyStr(v) == IF v = NaN THEN "nan" ELSE v

\* upload and "Import CSV into inventory" button, lines 286-293.  A file
\* without a header line makes read_csv raise (shown by line 314).
ImportStart(file, hasHeader) ==
    /\ pc = "idle"
    /\ IF hasHeader
       THEN /\ pc' = "import"
            /\ df_import' = read_csv(file)
            /\ msgs' = {}
       ELSE /\ msgs' = {"Failed to import CSV"}
            /\ UNCHANGED <<pc, df_import>>
    /\ UNCHANGED <<storeVars, choices, simLeft>>

ImportButton(file) ==
    /\ nextItemId + Len(file) - 1 <= MaxId
    /\ Len(transactions) + Len(file) <= MaxTx
    /\ ImportStart(file, TRUE)

\* ids of the rows select("id, qty").eq("name", name) returns
Matching(table, name) == {i \in DOMAIN table : table[i].name = PyStr(name)}

\* one iteration of the import loop, lines 294-309.  .maybe_single() gives
\* None for no row and raises for more than one row; that exception leaves
\* the loop and is shown by line 314.
ImportRow ==
    /\ pc = "import"
    /\ df_import # <<>>
    /\ LET row == Head(df_import)
           existing == Matching(items, row.name)
       IN  IF Cardinality(existing) > 1
           THEN /\ msgs' = msgs \cup {"Failed to import CSV"}
                /\ pc' = "idle"
                /\ df_import' = <<>>
                /\ UNCHANGED storeVars
           ELSE LET r == IF existing # {}
                         THEN update_quantity(Store, CHOOSE i \in existing : TRUE,
                                              row.qty, <<"Imported from CSV">>)
                         ELSE add_item(Store, row.name, row.category, row.qty,
                                       row.price, row.restock_threshold)
                IN  /\ Commit(r)
                    /\ msgs' = msgs \cup r.errors
                    /\ df_import' = Tail(df_import)
                    /\ pc' = pc
    /\ UNCHANGED <<choices, simLeft>>

\* end of the import, lines 311-312
ImportDone ==
    /\ pc = "import"
    /\ df_import = <<>>
    /\ msgs' = msgs \cup {"CSV imported successfully!"}
    /\ pc' = "idle"
    /\ UNCHANGED <<storeVars, choices, simLeft, df_import>>

\* ids of the rows a page can show: every id handed out so far
Rendered == 1..(nextItemId - 1)

Next ==
    \/ \E f \in FormInputs : AddButton(f) /\ UNCHANGED <<tripVars, concVars>>
    \/ \E id \in Rendered : UseButton(id) /\ UNCHANGED <<tripVars, concVars>>
    \/ \E id \in Rendered : BuyButton(id) /\ UNCHANGED <<tripVars, concVars>>
    \/ \E id \in Rendered : DeleteButton(id) /\ UNCHANGED <<tripVars, concVars>>
    \/ ClearButton /\ UNCHANGED <<tripVars, concVars>>
    \/ SimulateButton /\ UNCHANGED <<tripVars, concVars>>
    \/ \E iid \in choices, sale \in 1..SimMaxSale :
            SimulateEvent(iid, sale) /\ UNCHANGED <<tripVars, concVars>>
    \/ SimulateDone /\ UNCHANGED <<tripVars, concVars>>
    \/ \E file \in CsvFiles : ImportButton(file) /\ UNCHANGED <<tripVars, concVars>>
    \/ ImportRow /\ UNCHANGED <<tripVars, concVars>>
    \/ ImportDone /\ UNCHANGED <<tripVars, concVars>>

Spec == Init /\ [][Next]_vars

----------------------------------------------------------------------------
(* Export / import round trip: build an inventory, download its CSV, clear *)
(* the store, upload the file unmodified.                                  *)

\* DataFrame.to_csv of one item row (text and numbers are written as they
\* are; the id and created_at columns are written too, the import reads
\* neither, lines 295-299)
to_csv_row(item) ==
    [name |-> item.name, category |-> item.category, qty |-> item.qty,
     price |-> item.price, restock_threshold |-> item.restock_threshold]

\* the orders select("*") may return the rows of a table in
RowOrders(table) ==
    {o \in SeqsUpTo(DOMAIN table, Cardinality(DOMAIN table)) :
        /\ Len(o) = Cardinality(DOMAIN table)
        /\ \A i, j \in 1..Len(o) : i # j => o[i] # o[j]}

\* "Download inventory CSV", lines 270-275
ExportInventory(o) ==
    /\ pc = "idle"
    /\ phase = "build"
    /\ o \in RowOrders(items)
    /\ exported' = [k \in 1..Len(o) |-> to_csv_row(items[o[k]])]
    /\ phase' = "exported"
    /\ UNCHANGED <<storeVars, uiVars>>

\* the inventory is built before the download
TripAdd(f) ==
    /\ phase = "build"
    /\ nextItemId <= TripItems
    /\ AddButton(f)
    /\ UNCHANGED tripVars

TripUse(id) == phase = "build" /\ UseButton(id) /\ UNCHANGED tripVars

TripBuy(id) == phase = "build" /\ BuyButton(id) /\ UNCHANGED tripVars

TripDelete(id) == phase = "build" /\ DeleteButton(id) /\ UNCHANGED tripVars

TripClear ==
    /\ phase = "exported"
    /\ ClearButton
    /\ phase' = "cleared"
    /\ UNCHANGED exported

\* an empty inventory is written as a file without header line
TripUpload ==
    /\ phase = "cleared"
    /\ ImportStart(exported, exported # <<>>)
    /\ phase' = IF exported # <<>> THEN "importing" ELSE "done"
    /\ UNCHANGED exported

TripImportRow ==
    /\ phase = "importing"
    /\ ImportRow
    /\ phase' = IF pc' = "idle" THEN "done" ELSE phase
    /\ UNCHANGED exported

TripImportDone ==
    /\ phase = "importing"
    /\ ImportDone
    /\ phase' = "done"
    /\ UNCHANGED exported

NextRoundTrip ==
    \/ \E f \in FormInputs : TripAdd(f) /\ UNCHANGED concVars
    \/ \E id \in Rendered : TripUse(id) /\ UNCHANGED concVars
    \/ \E id \in Rendered : TripBuy(id) /\ UNCHANGED concVars
    \/ \E id \in Rendered : TripDelete(id) /\ UNCHANGED concVars
    \/ \E o \in RowOrders(items) : ExportInventory(o) /\ UNCHANGED concVars
    \/ TripClear /\ UNCHANGED concVars
    \/ TripUpload /\ UNCHANGED concVars
    \/ TripImportRow /\ UNCHANGED concVars
    \/ TripImportDone /\ UNCHANGED concVars

SpecRoundTrip == Init /\ [][NextRoundTrip]_vars

----------------------------------------------------------------------------
(* Two sessions of the shared backend run update_quantity on one item; the *)
(* three requests of each call (lines 55, 61, 64) are separate steps.      *)

\* what a session's click asks for: Use, Buy, or one simulated sale
ConcInputs ==
    {[delta |-> -1, note |-> <<"Used 1">>], [delta |-> 1, note |-> <<"Bought +1">>]}
    \cup {[delta |-> -k, note |-> <<"Simulated sale">>] : k \in 1..SimMaxSale}

AllIdle == \A a \in Sessions : calls[a].pc = "idle"
AllDone == \A a \in Sessions : calls[a].pc = "done"

ConcAdd(f) ==
    /\ AllIdle
    /\ AddButton(f)
    /\ UNCHANGED concVars

ConcDelete(id) ==
    /\ AllIdle
    /\ DeleteButton(id)
    /\ UNCHANGED concVars

\* both sessions call update_quantity for the same rendered row
ConcStart(id, in1, in2) ==
    /\ AllIdle
    /\ pc = "idle"
    /\ id \in Rendered
    /\ Len(transactions) + 2 <= MaxTx
    /\ calls' = [a \in Sessions |->
                    LET in == IF a = 1 THEN in1 ELSE in2
                    IN  [IdleCall EXCEPT !.pc = "read", !.item_id = id,
                                         !.delta = in.delta, !.note = in.note]]
    /\ round' = [item_id |-> id,
                 qty |-> IF id \in DOMAIN items THEN items[id].qty ELSE 0,
                 logged |-> Len(transactions)]
    /\ order' = <<>>
    /\ msgs' = {}
    /\ UNCHANGED <<storeVars, pc, choices, simLeft, df_import>>

\* lines 55-58: select the qty, compute the floored sum
ConcRead(a) ==
    /\ calls[a].pc = "read"
    /\ IF calls[a].item_id \in DOMAIN items
       THEN /\ calls' = [calls EXCEPT
                            ![a].pc = "write",
                            ![a].current_qty = items[calls[a].item_id].qty,
                            ![a].new_qty = new_qty(items[calls[a].item_id].qty,
                                                   calls[a].delta)]
            /\ msgs' = msgs
       ELSE /\ calls' = [calls EXCEPT ![a].pc = "done"]
            /\ msgs' = msgs \cup {"Failed to update quantity"}
    /\ order' = Append(order, a)
    /\ UNCHANGED <<storeVars, round, pc, choices, simLeft, df_import>>

\* line 61: update the row with the value computed from the earlier read
ConcWrite(a) ==
    /\ calls[a].pc = "write"
    /\ items' = IF calls[a].item_id \in DOMAIN items
                THEN [items EXCEPT ![calls[a].item_id].qty = calls[a].new_qty]
                ELSE items
    /\ everClamped' = IF /\ calls[a].item_id \in DOMAIN items
                         /\ calls[a].current_qty + calls[a].delta < 0
                      THEN everClamped \cup {calls[a].item_id}
                      ELSE everClamped
    /\ calls' = [calls EXCEPT ![a].pc = "log"]
    /\ order' = Append(order, a)
    /\ UNCHANGED <<transactions, nextItemId, round, uiVars>>

\* lines 64-68: insert the transaction
ConcLog(a) ==
    /\ calls[a].pc = "log"
    /\ transactions' = Append(transactions,
                              [item_id |-> calls[a].item_id,
                               change |-> logged_change(calls[a].current_qty, calls[a].delta),
                               note |-> calls[a].note])
    /\ calls' = [calls EXCEPT ![a].pc = "done"]
    /\ order' = Append(order, a)
    /\ UNCHANGED <<items, nextItemId, everClamped, round, uiVars>>

\* both calls have returned; the pages rerun
ConcFinish ==
    /\ AllDone
    /\ calls' = [a \in Sessions |-> IdleCall]
    /\ round' = NoRound
    /\ order' = <<>>
    /\ UNCHANGED <<storeVars, uiVars>>

NextConc ==
    \/ \E f \in FormInputs : ConcAdd(f) /\ UNCHANGED tripVars
    \/ \E id \in Rendered : ConcDelete(id) /\ UNCHANGED tripVars
    \/ \E id \in Rendered, in1 \in ConcInputs, in2 \in ConcInputs :
            ConcStart(id, in1, in2) /\ UNCHANGED tripVars
    \/ \E a \in Sessions : ConcRead(a) /\ UNCHANGED tripVars
    \/ \E a \in Sessions : ConcWrite(a) /\ UNCHANGED tripVars
    \/ \E a \in Sessions : ConcLog(a) /\ UNCHANGED tripVars
    \/ ConcFinish /\ UNCHANGED tripVars

SpecConc == Init /\ [][NextConc]_vars

----------------------------------------------------------------------------
(* Properties *)

Floor0(n) == IF n > 0 THEN n ELSE 0

Last(seq) == seq[Len(seq)]

TxOf(id) == SelectSeq(transactions, LAMBDA t : t.item_id = id)

RECURSIVE SumChange(_)
SumChange(seq) == IF seq = <<>> THEN 0 ELSE Head(seq).change + SumChange(Tail(seq))

\* the step leaves every item other than id as it is and adds or drops none
OthersKept(id) ==
    /\ DOMAIN items' \ {id} = DOMAIN items \ {id}
    /\ \A j \in DOMAIN items \ {id} : items'[j] = items[j]

\* the step appends exactly one transaction, for item id with the given change
OneLogged(id, change) ==
    /\ Len(transactions') = Len(transactions) + 1
    /\ SubSeq(transactions', 1, Len(transactions)) = transactions
    /\ Last(transactions').item_id = id
    /\ Last(transactions').change = change

\* the step completes add_item with the fields f
Creates(f) ==
    \/ AddButton(f)
    \/ /\ ImportRow
       /\ pc = "import" /\ df_import # <<>>
       /\ Head(df_import) = f
       /\ f.name # NaN /\ f.category # NaN
       /\ Matching(items, f.name) = {}

\* the step completes update_quantity(id, delta) on the stored item id
Adjusts(id, delta) ==
    /\ id \in DOMAIN items
    /\ \/ delta = -1 /\ UseButton(id)
       \/ delta = 1 /\ BuyButton(id)
       \/ delta \in (-SimMaxSale)..(-1) /\ SimulateEvent(id, -delta)
       \/ /\ ImportRow
          /\ pc = "import" /\ df_import # <<>>
          /\ Head(df_import).qty = delta
          /\ Matching(items, Head(df_import).name) = {id}

AllInputs == FormInputs \cup CsvRows

AllDeltas == (-SimMaxSale)..1 \cup {r.qty : r \in CsvRows}

\* C1: a completed add_item adds exactly one item, with the given name,
\* category, quantity, price and restock threshold and an id no earlier item
\* had, and exactly one transaction for it whose change is the created
\* quantity; every other item and transaction stays as it was.
C1_CreateItem ==
    [][\A f \in AllInputs :
          Creates(f) =>
             \E id \in DOMAIN items' \ DOMAIN items :
                /\ id \notin Rendered
                /\ DOMAIN items' = DOMAIN items \cup {id}
                /\ items'[id] = [name |-> f.name, category |-> f.category,
                                 qty |-> f.qty, price |-> f.price,
                                 restock_threshold |-> f.restock_threshold]
                /\ OthersKept(id)
                /\ OneLogged(id, f.qty)]_vars

\* an item was added after an earlier id had been freed by a delete
C1_Witness ==
    /\ "Added" \in msgs
    /\ nextItemId - 1 \in DOMAIN items
    /\ \E id \in Rendered : id \notin DOMAIN items
    /\ Cardinality(DOMAIN items) >= 2

\* C2: update_quantity(id, delta) on a stored item with quantity q leaves it
\* with max(q + delta, 0) and appends exactly one transaction for it with
\* change = delta, also when the result was floored at 0; the item's other
\* fields and every other item are unchanged.
C2_AdjustQuantity ==
    [][\A id \in DOMAIN items, delta \in AllDeltas :
          Adjusts(id, delta) =>
             /\ id \in DOMAIN items'
             /\ items'[id] = [items[id] EXCEPT !.qty = Floor0(items[id].qty + delta)]
             /\ OthersKept(id)
             /\ OneLogged(id, delta)]_vars

\* an import row has driven a stored item to the floor: its transaction
\* carries the negative delta and the quantity is 0
C2_Witness ==
    /\ transactions # <<>>
    /\ Last(transactions).note = <<"Imported from CSV">>
    /\ Last(transactions).change < 0
    /\ Last(transactions).item_id \in everClamped
    /\ items[Last(transactions).item_id].qty = 0

\* C3: every stored item has quantity >= 0.
C3_QuantityNonNegative == \A id \in DOMAIN items : items[id].qty >= 0

\* C4 as claimed: every operation that changes a quantity logs exactly one
\* transaction whose change is the new quantity minus the old one (0 before
\* the creation).
C4_ChangeIsAppliedDelta ==
    [][/\ \A f \in AllInputs :
            Creates(f) => \E id \in DOMAIN items' \ DOMAIN items :
                             OneLogged(id, items'[id].qty - 0)
       /\ \A id \in DOMAIN items, delta \in AllDeltas :
            Adjusts(id, delta) => /\ id \in DOMAIN items'
                                  /\ OneLogged(id, items'[id].qty - items[id].qty)]_vars

\* C4 as amended: add_item and update_quantity on a stored item log exactly
\* one transaction, whose change is the requested amount (the created
\* quantity, the delta); that is the new quantity minus the old one exactly
\* when old + delta >= 0, and less than it when the update was floored at 0.
C4_ChangeIsRequestedDelta ==
    [][/\ \A f \in AllInputs :
            Creates(f) => \E id \in DOMAIN items' \ DOMAIN items :
                             /\ OneLogged(id, f.qty)
                             /\ f.qty = items'[id].qty - 0
       /\ \A id \in DOMAIN items, delta \in AllDeltas :
            Adjusts(id, delta) =>
               /\ id \in DOMAIN items'
               /\ OneLogged(id, delta)
               /\ items[id].qty + delta >= 0 => delta = items'[id].qty - items[id].qty
               /\ items[id].qty + delta < 0 => delta < items'[id].qty - items[id].qty]_vars

\* simulated sales larger than the stock: the item is at 0 and the changes
\* logged for it sum to less than 0
C4_Witness ==
    /\ transactions # <<>>
    /\ Last(transactions).note = <<"Simulated sale">>
    /\ LET id == Last(transactions).item_id
       IN  /\ id \in everClamped
           /\ items[id].qty = 0
           /\ SumChange(TxOf(id)) < 0

\* C5: delete_item(id) removes the item and every transaction with its
\* item_id, after which no transaction refers to a missing item; deleting
\* again, or deleting an id that is not stored, changes nothing and shows no
\* error; the other items and their transactions are unchanged.
C5_DeleteItem ==
    [][\A id \in Rendered :
          DeleteButton(id) =>
             /\ id \notin DOMAIN items'
             /\ \A k \in 1..Len(transactions') :
                   /\ transactions'[k].item_id # id
                   /\ transactions'[k].item_id \in DOMAIN items'
             /\ OthersKept(id)
             /\ transactions' = SelectSeq(transactions, LAMBDA t : t.item_id # id)
             /\ msgs' = {}
             /\ id \notin DOMAIN items => items' = items /\ transactions' = transactions
             /\ LET again == delete_item([items |-> items', transactions |-> transactions',
                                          nextItemId |-> nextItemId',
                                          everClamped |-> everClamped', errors |-> {}], id)
                IN  /\ again.items = items'
                    /\ again.transactions = transactions'
                    /\ again.errors = {}]_vars

\* an item with logged transactions was deleted while another item and its
\* transactions stay stored
C5_Witness ==
    /\ msgs = {}
    /\ pc = "idle"
    /\ \E id \in Rendered : id \notin DOMAIN items
    /\ DOMAIN items # {}
    /\ Len(transactions) >= 2

\* C6: the import visits the rows in order; a row whose name an item has
\* updates that item through update_quantity (quantity max(current + qty, 0),
\* one transaction with change = qty, category, price and threshold kept), a
\* row whose name no item has is created with the row's fields.  (Stated for
\* rows whose name and category read_csv keeps as text.)
C6_ImportByName ==
    [][(/\ pc = "import" /\ df_import # <<>>
        /\ Head(df_import).name # NaN /\ Head(df_import).category # NaN
        /\ ImportRow)
       => LET row == Head(df_import)
              named == {i \in DOMAIN items : items[i].name = row.name}
          IN  /\ df_import' = Tail(df_import)
              /\ IF named # {}
                 THEN \E id \in named :
                        /\ id \in DOMAIN items'
                        /\ items'[id] = [items[id] EXCEPT
                                            !.qty = Floor0(items[id].qty + row.qty)]
                        /\ OthersKept(id)
                        /\ OneLogged(id, row.qty)
                 ELSE \E id \in DOMAIN items' \ DOMAIN items :
                        /\ items'[id] = row
                        /\ OthersKept(id)
                        /\ OneLogged(id, row.qty)]_vars

RECURSIVE Count(_, _)
Count(x, seq) ==
    IF seq = <<>> THEN 0
    ELSE (IF Head(seq) = x THEN 1 ELSE 0) + Count(x, Tail(seq))

StoredRows == {to_csv_row(items[i]) : i \in DOMAIN items}

\* C7: after the unmodified export has been imported into the emptied
\* store, the stored items are the exported rows: the same (name, category,
\* price, restock_threshold, qty) tuples, each as many times.
C7_RoundTrip ==
    phase = "done" =>
        \A r \in StoredRows \cup {exported[k] : k \in 1..Len(exported)} :
            Count(r, exported) = Cardinality({i \in DOMAIN items : to_csv_row(items[i]) = r})

\* C7 for the inventories whose names and categories read_csv keeps as
\* text (two items may still share a name).
C7_RoundTripOfTextNames ==
    (\A k \in 1..Len(exported) : exported[k].name \notin NaTokens) => C7_RoundTrip

ErrorTexts == {"Failed to update quantity", "Item not found"}

\* C8: update_quantity on an id that is not stored shows an error and
\* leaves items and transactions as they are; a transaction is only ever
\* logged for an item that is stored.
C8_NotFound ==
    [][/\ \A id \in Rendered \ DOMAIN items :
            (UseButton(id) \/ BuyButton(id)) =>
                /\ msgs' \cap ErrorTexts # {}
                /\ UNCHANGED storeVars
       /\ Len(transactions') > Len(transactions) =>
            Last(transactions').item_id \in DOMAIN items']_vars

\* the button of a deleted row was pressed: the error is shown
C8_Witness ==
    /\ msgs \cap ErrorTexts # {}
    /\ pc = "idle"
    /\ \E id \in Rendered : id \notin DOMAIN items

\* the quantity two calls leave when they run one after the other
Sequential(q, d1, d2) == Floor0(Floor0(q + d1) + d2)

RoundQty == items[round.item_id].qty

\* C9: when both calls on a stored item have returned, both transactions
\* are logged; if the calls did not interleave the quantity is the result of
\* running them in that order, and in every case it is one of the two
\* sequential results or reflects only one of the deltas.
C9_SequentialUnlessInterleaved ==
    (AllDone /\ round.item_id \in DOMAIN items) =>
        LET q  == round.qty
            d1 == calls[1].delta
            d2 == calls[2].delta
            n  == Len(transactions)
        IN  /\ n = round.logged + 2
            /\ transactions[n].item_id = round.item_id
            /\ transactions[n - 1].item_id = round.item_id
            /\ \/ transactions[n - 1].change = d1 /\ transactions[n].change = d2
               \/ transactions[n - 1].change = d2 /\ transactions[n].change = d1
            /\ order = <<1, 1, 1, 2, 2, 2>> => RoundQty = Sequential(q, d1, d2)
            /\ order = <<2, 2, 2, 1, 1, 1>> => RoundQty = Sequential(q, d2, d1)
            /\ RoundQty \in {Sequential(q, d1, d2), Sequential(q, d2, d1),
                             Floor0(q + d1), Floor0(q + d2)}

\* lost update: both transactions are logged and the quantity is neither
\* sequential result
C9_Witness ==
    /\ AllDone
    /\ round.item_id \in DOMAIN items
    /\ Len(transactions) = round.logged + 2
    /\ RoundQty # Sequential(round.qty, calls[1].delta, calls[2].delta)
    /\ RoundQty # Sequential(round.qty, calls[2].delta, calls[1].delta)

\* C10: every stored item's quantity is at least the sum of the changes
\* logged for it, and equal to it exactly when none of its updates was
\* floored at 0; every transaction's item_id is the id of a stored item.
C10_LedgerConsistent ==
    /\ \A id \in DOMAIN items :
          /\ items[id].qty >= SumChange(TxOf(id))
          /\ items[id].qty = SumChange(TxOf(id)) <=> id \notin everClamped
    /\ \A k \in 1..Len(transactions) : transactions[k].item_id \in DOMAIN items

\* one item was floored and holds more than its ledger sums to, another
\* with stock was not and holds exactly its ledger sum
C10_Witness ==
    \E a, b \in DOMAIN items :
        /\ a \in everClamped
        /\ items[a].qty > SumChange(TxOf(a))
        /\ b \notin everClamped
        /\ items[b].qty > 0
        /\ items[b].qty = SumChange(TxOf(b))

====
